---- MODULE Spec2Model ----
(***************************************************************************)
(* o2family_info.py: login, scan of the landing page for                   *)
(* (phone number, line id) pairs with MyHTMLParser, one GET per pair and   *)
(* the optional dump of each payload to <phone_number>.json.               *)
(*                                                                         *)
(* Python strings are sequences of one-character strings.  Python's None   *)
(* is the one-element sequence <<"None">>, which no string equals.         *)
(***************************************************************************)
EXTENDS Integers, Sequences, FiniteSets, TLC

VARIABLES
    pc,             \* position of the single thread of control in main()
    args,           \* parsed command line: save_as (given or not), force
    files,          \* directory args.save_as: file name (phone number) -> text
    files0,         \* the directory as it was when the process started
    response,       \* the local variable `response` of main()
    suspected,      \* MyHTMLParser.suspected
    matches,        \* MyHTMLParser.matches, a dict in insertion order
    idx,            \* position of the for loop in parser.matches.items()
    ret,            \* value main() returned
    exc,            \* exception that left main(), "" when none
    exitCode,       \* exit status of the process, NotExited while running
    gets,           \* GET requests issued so far: <<line id, response>>
    nfed,           \* number of parser events handled so far
    last,           \* the parser event handled last
    prevSuspected,  \* value of suspected before the event handled last
    resolved        \* <<phone number, line id>> of every anchor resolved so far

vars == <<pc, args, files, files0, response, suspected, matches, idx, ret, exc,
          exitCode, gets, nfed, last, prevSuspected, resolved>>

-----------------------------------------------------------------------------
(* Bounds *)

MaxEvents == 5

-----------------------------------------------------------------------------
(* Python values *)

None == <<"None">>

PyNone == [type |-> "NoneType", val |-> 0]

PyInt(n) == [type |-> "int", val |-> n]

Truthy(v) == v.type = "int" /\ v.val # 0

\* `a or b`
PyOr(a, b) == IF Truthy(a) THEN a ELSE b

\* sys.exit(v): None is status 0, an integer is the status
SysExit(v) == IF v.type = "NoneType" THEN 0 ELSE v.val % 256

NotExited == -1

UncaughtExceptionStatus == 1

-----------------------------------------------------------------------------
(* str methods *)

NumericChars == {"0", "1", "2", "3", "4", "5", "6", "7", "8", "9"}

Whitespace == {" ", "\n", "\t"}

isnumeric_orEmpty(s) == \A i \in 1..Len(s) : s[i] \in NumericChars

\* str.isnumeric(): at least one character and all of them numeric
isnumeric(s) == Len(s) > 0 /\ \A i \in 1..Len(s) : s[i] \in NumericChars

RECURSIVE lstrip(_)
lstrip(s) == IF Len(s) > 0 /\ Head(s) \in Whitespace THEN lstrip(Tail(s)) ELSE s

RECURSIVE rstrip(_)
rstrip(s) ==
    IF Len(s) > 0 /\ s[Len(s)] \in Whitespace
    THEN rstrip(SubSeq(s, 1, Len(s) - 1))
    ELSE s

strip_leftOnly(s) == lstrip(s)

\* str.strip()
strip(s) == rstrip(lstrip(s))

\* str.startswith(p)
startswith(s, p) == Len(s) >= Len(p) /\ SubSeq(s, 1, Len(p)) = p

RECURSIVE SplitFrom(_, _, _, _)
SplitFrom(s, sep, i, cur) ==
    IF i > Len(s) THEN <<cur>>
    ELSE IF s[i] = sep THEN <<cur>> \o SplitFrom(s, sep, i + 1, <<>>)
    ELSE SplitFrom(s, sep, i + 1, Append(cur, s[i]))

\* str.split(sep) for a one-character separator
split(s, sep) == SplitFrom(s, sep, 1, <<>>)

-----------------------------------------------------------------------------
(* dict, in insertion order: a sequence of <<key, value>> *)

HasKey(d, k) == \E i \in 1..Len(d) : d[i][1] = k

DictSet_keepFirst(d, k, v) == IF HasKey(d, k) THEN d ELSE Append(d, <<k, v>>)

\* d[k] = v
DictSet(d, k, v) ==
    IF HasKey(d, k)
    THEN [i \in 1..Len(d) |-> IF d[i][1] = k THEN <<k, v>> ELSE d[i]]
    ELSE Append(d, <<k, v>>)

ItemAt_first(d, i) == d[1]

\* the i-th pair of d.items()
ItemAt(d, i) == d[i]

-----------------------------------------------------------------------------
(* MyHTMLParser *)

Prefix ==
    << "/", "n", "a", "s", "t", "a", "v", "e", "n", "i", "-",
       "t", "a", "r", "i", "f", "u", "-", "a", "-",
       "s", "l", "u", "z", "e", "b", "/" >>

\* attrs[i..] of an `a` start tag, with the candidate so far
RECURSIVE ScanAttrs(_, _, _)
ScanAttrs(attrs, i, susp) ==
    IF i > Len(attrs) THEN [suspected |-> susp, raised |-> ""]
    ELSE LET attr == attrs[i] IN
        IF Len(attr) # 2 THEN ScanAttrs(attrs, i + 1, susp)
        ELSE IF attr[1] # "href" THEN ScanAttrs(attrs, i + 1, susp)
        ELSE IF attr[2] = None
            THEN [suspected |-> susp, raised |-> "AttributeError"]
        ELSE IF ~startswith(attr[2], Prefix) THEN ScanAttrs(attrs, i + 1, susp)
        ELSE IF Len(split(attr[2], "/")) < 3
            THEN [suspected |-> susp, raised |-> "IndexError"]
        ELSE IF ~isnumeric(split(attr[2], "/")[3]) THEN ScanAttrs(attrs, i + 1, susp)
        ELSE ScanAttrs(attrs, i + 1, split(attr[2], "/")[3])

handle_starttag_onlyAnchorResets(susp, tag, attrs) ==
    IF tag = "a"
    THEN ScanAttrs(attrs, 1, None)
    ELSE [suspected |-> susp, raised |-> ""]

\* handle_starttag: the candidate after the tag, and the exception raised if any
handle_starttag(susp, tag, attrs) ==
    IF tag = "a"
    THEN ScanAttrs(attrs, 1, None)
    ELSE [suspected |-> None, raised |-> ""]

\* handle_endtag
handle_endtag(susp, tag) == None

\* handle_data: the candidate and the mapping after the text chunk
handle_data(susp, m, data) ==
    IF susp = None THEN [suspected |-> susp, matches |-> m, hit |-> FALSE]
    ELSE LET data_strip == strip(data) IN
        IF ~isnumeric(data_strip)
        THEN [suspected |-> susp, matches |-> m, hit |-> FALSE]
        ELSE [suspected |-> None, matches |-> DictSet(m, data_strip, susp),
              hit |-> TRUE]

-----------------------------------------------------------------------------
(* json *)

Quote == "\""

\* text without the whitespace that stands outside string literals
RECURSIVE Compact(_, _, _)
Compact(s, i, inString) ==
    IF i > Len(s) THEN <<>>
    ELSE IF s[i] = Quote THEN <<s[i]>> \o Compact(s, i + 1, ~inString)
    ELSE IF ~inString /\ s[i] \in Whitespace THEN Compact(s, i + 1, inString)
    ELSE <<s[i]>> \o Compact(s, i + 1, inString)

\* the texts json.loads accepts here: an object of one string member
IsJson(s) ==
    LET parts == split(Compact(s, 1, FALSE), Quote) IN
        /\ Len(parts) = 5
        /\ parts[1] = <<"{">>
        /\ parts[3] = <<":">>
        /\ parts[5] = <<"}">>

\* json.loads / response.json(): the dict the text denotes
JsonLoads(s) ==
    LET parts == split(Compact(s, 1, FALSE), Quote) IN << <<parts[2], parts[4]>> >>

\* json.dumps / json.dump with the default separators
JsonDumps(d) ==
    <<"{", Quote>> \o d[1][1] \o <<Quote, ":", " ", Quote>> \o d[1][2] \o <<Quote, "}">>

-----------------------------------------------------------------------------
(* requests *)

raise_for_status_never(status) == FALSE

\* Response.raise_for_status() raises HTTPError for 4xx and 5xx
raise_for_status(status) == 400 <= status /\ status < 600

-----------------------------------------------------------------------------
(* os.path, os.remove, open(..., "w") *)

\* os.path.exists
exists(fs, name) == name \in DOMAIN fs

remove_nothing(fs, name) == fs

\* os.remove
remove(fs, name) == [n \in (DOMAIN fs) \ {name} |-> fs[n]]

\* with open(name, "w") as fp: fp.write(text)
WriteFile(fs, name, text) ==
    [n \in (DOMAIN fs) \cup {name} |-> IF n = name THEN text ELSE fs[n]]

-----------------------------------------------------------------------------
(* Inputs *)

HrefGood1 == Prefix \o <<"1", "2", "/", "x">>
HrefGood2 == Prefix \o <<"7">>
HrefAbc == Prefix \o <<"a", "b", "c", "/", "x">>
HrefNoSegment == Prefix
HrefOther == <<"/", "o", "/", "1", "2">>

AnchorAttrs ==
    { <<>>,
      << <<"href", HrefGood1>> >>,
      << <<"href", HrefGood2>> >>,
      << <<"href", HrefAbc>> >>,
      << <<"href", HrefNoSegment>> >>,
      << <<"href", HrefOther>> >>,
      << <<"href", None>> >>,
      << <<"title", HrefGood1>> >>,
      << <<"href", HrefGood1>>, <<"href", HrefGood2>> >>,
      << <<"href", HrefGood1>>, <<"href", HrefOther>> >>,
      << <<"href", HrefGood1>>, <<"href", None>> >> }

StartTags ==
    { [kind |-> "start", tag |-> "a", attrs |-> a, data |-> <<>>] : a \in AnchorAttrs }
    \cup
    { [kind |-> "start", tag |-> "span", attrs |-> a, data |-> <<>>] :
        a \in { <<>>, << <<"href", HrefGood1>> >> } }

EndTags == { [kind |-> "end", tag |-> "a", attrs |-> <<>>, data |-> <<>>] }

DataTexts ==
    { <<"4", "5">>,
      <<" ", "4", "5", "\n">>,
      <<"4", "6">>,
      <<"N", "/", "A">>,
      <<" ">>,
      <<"4", " ", "5">> }

DataChunks ==
    { [kind |-> "data", tag |-> "", attrs |-> <<>>, data |-> d] : d \in DataTexts }

NoEvent == [kind |-> "none", tag |-> "", attrs |-> <<>>, data |-> <<>>]

BodyX == <<"{", Quote, "t", Quote, ":", Quote, "X", Quote, "}">>
BodyY == <<"{", Quote, "t", Quote, ":", " ", Quote, "Y", Quote, "}">>
BodyE == <<"{", Quote, "t", Quote, ":", Quote, "E", Quote, "}">>
BodyBad == <<"<", "h", ">">>
BodyOld == <<"{", Quote, "t", Quote, ":", " ", Quote, "O", Quote, "}">>

LoginResponses == { [status |-> 200, text |-> <<>>], [status |-> 403, text |-> <<>>] }

GetResponses ==
    { [status |-> 200, text |-> BodyX],
      [status |-> 200, text |-> BodyY],
      [status |-> 200, text |-> BodyBad],
      [status |-> 500, text |-> BodyE] }

NoResponse == [status |-> 0, text |-> <<>>]

FileNames == { <<"4", "5">>, <<"4", "6">> }

-----------------------------------------------------------------------------
(* The run *)

Init ==
    /\ pc = "login"
    /\ args \in [save_as : BOOLEAN, force : BOOLEAN]
    /\ \E present \in SUBSET FileNames : files = [n \in present |-> BodyOld]
    /\ files0 = files
    /\ response = NoResponse
    /\ suspected = None
    /\ matches = <<>>
    /\ idx = 0
    /\ ret = PyNone
    /\ exc = ""
    /\ exitCode = NotExited
    /\ gets = <<>>
    /\ nfed = 0
    /\ last = NoEvent
    /\ prevSuspected = None
    /\ resolved = <<>>

\* session.post(...); response.raise_for_status(); parser = MyHTMLParser()
Login ==
    /\ pc = "login"
    /\ \E r \in LoginResponses :
        /\ response' = r
        /\ IF raise_for_status(r.status)
           THEN pc' = "raised" /\ exc' = "HTTPError"
           ELSE pc' = "feed" /\ exc' = exc
    /\ UNCHANGED <<args, files, files0, suspected, matches, idx, ret, exitCode,
                   gets, nfed, last, prevSuspected, resolved>>

\* parser.feed(...) meets a start tag
HandleStartTag ==
    /\ pc = "feed"
    /\ nfed < MaxEvents
    /\ \E e \in StartTags :
        LET r == handle_starttag(suspected, e.tag, e.attrs) IN
            /\ last' = e
            /\ suspected' = r.suspected
            /\ IF r.raised # ""
               THEN pc' = "raised" /\ exc' = r.raised
               ELSE pc' = pc /\ exc' = exc
    /\ nfed' = nfed + 1
    /\ prevSuspected' = suspected
    /\ UNCHANGED <<args, files, files0, response, matches, idx, ret, exitCode,
                   gets, resolved>>

\* parser.feed(...) meets an end tag
HandleEndTag ==
    /\ pc = "feed"
    /\ nfed < MaxEvents
    /\ \E e \in EndTags :
        /\ last' = e
        /\ suspected' = handle_endtag(suspected, e.tag)
    /\ nfed' = nfed + 1
    /\ prevSuspected' = suspected
    /\ UNCHANGED <<pc, args, files, files0, response, matches, idx, ret, exc,
                   exitCode, gets, resolved>>

\* parser.feed(...) meets a text chunk
HandleData ==
    /\ pc = "feed"
    /\ nfed < MaxEvents
    /\ \E e \in DataChunks :
        LET r == handle_data(suspected, matches, e.data) IN
            /\ last' = e
            /\ suspected' = r.suspected
            /\ matches' = r.matches
            /\ resolved' = IF r.hit
                           THEN Append(resolved, <<strip(e.data), suspected>>)
                           ELSE resolved
    /\ nfed' = nfed + 1
    /\ prevSuspected' = suspected
    /\ UNCHANGED <<pc, args, files, files0, response, idx, ret, exc, exitCode, gets>>

\* parser.feed(...) returns; the for loop starts
FeedDone ==
    /\ pc = "feed"
    /\ pc' = "loop"
    /\ idx' = 1
    /\ UNCHANGED <<args, files, files0, response, suspected, matches, ret, exc,
                   exitCode, gets, nfed, last, prevSuspected, resolved>>

\* session.get(...); response.raise_for_status(); response.json()
Get ==
    /\ pc = "loop"
    /\ idx <= Len(matches)
    /\ \E r \in GetResponses :
        /\ response' = r
        /\ gets' = Append(gets, <<ItemAt(matches, idx)[2], r>>)
        /\ IF raise_for_status(r.status)
           THEN pc' = "raised" /\ exc' = "HTTPError"
           ELSE IF ~IsJson(r.text)
           THEN pc' = "raised" /\ exc' = "JSONDecodeError"
           ELSE pc' = "save" /\ exc' = exc
    /\ UNCHANGED <<args, files, files0, suspected, matches, idx, ret, exitCode,
                   nfed, last, prevSuspected, resolved>>

Refused_never(fs, name, force) == FALSE

\* the write of `name` is refused: it exists and --force was not given
Refused(fs, name, force) == exists(fs, name) /\ ~force

\* if args.save_as is not None: ... os.remove(save_as_file) / return 1
SaveCheck ==
    /\ pc = "save"
    /\ LET save_as_file == ItemAt(matches, idx)[1] IN
        IF ~args.save_as
        THEN /\ pc' = "loop"
             /\ idx' = idx + 1
             /\ UNCHANGED <<files, ret>>
        ELSE IF Refused(files, save_as_file, args.force)
        THEN /\ pc' = "returned"
             /\ ret' = PyInt(1)
             /\ UNCHANGED <<files, idx>>
        ELSE /\ pc' = "write"
             /\ files' = IF exists(files, save_as_file)
                         THEN remove(files, save_as_file)
                         ELSE files
             /\ UNCHANGED <<idx, ret>>
    /\ UNCHANGED <<args, files0, response, suspected, matches, exc, exitCode,
                   gets, nfed, last, prevSuspected, resolved>>

\* with open(save_as_file, "w") as fp: json.dump(response.json(), fp)
Write ==
    /\ pc = "write"
    /\ files' = WriteFile(files, ItemAt(matches, idx)[1],
                          JsonDumps(JsonLoads(response.text)))
    /\ pc' = "loop"
    /\ idx' = idx + 1
    /\ UNCHANGED <<args, files0, response, suspected, matches, ret, exc, exitCode,
                   gets, nfed, last, prevSuspected, resolved>>

\* the for loop is exhausted: main() falls off its end and returns None
LoopEnd ==
    /\ pc = "loop"
    /\ idx > Len(matches)
    /\ pc' = "returned"
    /\ ret' = PyNone
    /\ UNCHANGED <<args, files, files0, response, suspected, matches, idx, exc,
                   exitCode, gets, nfed, last, prevSuspected, resolved>>

\* sys.exit(main() or 1)
Exit ==
    /\ pc = "returned"
    /\ exitCode' = SysExit(PyOr(ret, PyInt(1)))
    /\ pc' = "exited"
    /\ UNCHANGED <<args, files, files0, response, suspected, matches, idx, ret,
                   exc, gets, nfed, last, prevSuspected, resolved>>

\* an exception leaves main(): the interpreter prints the traceback and exits
Crash ==
    /\ pc = "raised"
    /\ exitCode' = UncaughtExceptionStatus
    /\ pc' = "exited"
    /\ UNCHANGED <<args, files, files0, response, suspected, matches, idx, ret,
                   exc, gets, nfed, last, prevSuspected, resolved>>

Next ==
    \/ Login
    \/ HandleStartTag
    \/ HandleEndTag
    \/ HandleData
    \/ FeedDone
    \/ Get
    \/ SaveCheck
    \/ Write
    \/ LoopEnd
    \/ Exit
    \/ Crash

Spec == Init /\ [][Next]_vars

-----------------------------------------------------------------------------
(* Vocabulary of the properties, stated without the program's own helpers *)

\* the value a mapping holds for key k
Lookup(d, k) == d[CHOOSE i \in 1..Len(d) : d[i][1] = k][2]

Digits == {"0", "1", "2", "3", "4", "5", "6", "7", "8", "9"}

Blank == {" ", "\n", "\t"}

NonEmptyNumeric(s) == s # None /\ Len(s) >= 1 /\ \A i \in 1..Len(s) : s[i] \in Digits

\* the numeric strings that `d` is once the blanks around it are dropped
TrimmedNumeric(d) ==
    { SubSeq(d, a, b) : <<a, b>> \in
        { ab \in (1..Len(d)) \X (1..Len(d)) :
            /\ ab[1] <= ab[2]
            /\ \A i \in 1..(ab[1] - 1) : d[i] \in Blank
            /\ \A i \in (ab[2] + 1)..Len(d) : d[i] \in Blank
            /\ \A i \in ab[1]..ab[2] : d[i] \in Digits } }

\* the third "/"-delimited segment of an href that starts with the prefix
RECURSIVE UpToSlash(_)
UpToSlash(s) ==
    IF s = <<>> \/ Head(s) = "/" THEN <<>> ELSE <<Head(s)>> \o UpToSlash(Tail(s))

HasPrefix(v) ==
    /\ v # None
    /\ Len(v) >= Len(Prefix)
    /\ \A i \in 1..Len(Prefix) : v[i] = Prefix[i]

\* the identifiers the href attributes of a tag declare
DeclaredIds(attrs) ==
    { UpToSlash(SubSeq(attrs[i][2], Len(Prefix) + 1, Len(attrs[i][2]))) :
        i \in { j \in 1..Len(attrs) :
                  /\ attrs[j][1] = "href"
                  /\ HasPrefix(attrs[j][2])
                  /\ NonEmptyNumeric(UpToSlash(SubSeq(attrs[j][2], Len(Prefix) + 1,
                                                      Len(attrs[j][2])))) } }

\* this step handles one more parser event, of the kind given
Handles(kind) == pc = "feed" /\ nfed' = nfed + 1 /\ last'.kind = kind

Ended == pc \in {"raised", "returned", "exited"}

FetchFailed(r) == r.status >= 400 \/ r.text = BodyBad

\* the JSON value a text denotes, compared text against text
SamePayload(t1, t2) ==
    LET c1 == SelectSeq(t1, LAMBDA c : c \notin Blank)
        c2 == SelectSeq(t2, LAMBDA c : c \notin Blank)
    IN c1 = c2

FullSuccess == pc = "exited" /\ exc = "" /\ ret = PyNone

-----------------------------------------------------------------------------
(* C1: a discovery-mode run that ends in full success (login succeeds,     *)
(* every fetch succeeds, no file is refused) exits with status 0.          *)
C1_FullSuccessExitsZero == FullSuccess => exitCode = 0

-----------------------------------------------------------------------------
(* C2: with --save-as and without --force, a line whose destination file   *)
(* already exists has its write refused: the file keeps its contents at    *)
(* every point of the run, and once the run has fetched that line and      *)
(* ended, main returned 1 and the exit status is not 0.                    *)
C2_RefusedWriteKeepsFile ==
    (args.save_as /\ ~args.force) =>
        \A i \in 1..Len(matches) :
            LET name == matches[i][1] IN
                name \in DOMAIN files0 =>
                    /\ name \in DOMAIN files
                    /\ files[name] = files0[name]
                    /\ (pc = "exited" /\ Len(gets) >= i /\ ~FetchFailed(gets[i][2]))
                         => (ret = PyInt(1) /\ exitCode # 0 /\ idx = i)

C2_Witness ==
    /\ pc = "exited"
    /\ args.save_as
    /\ ~args.force
    /\ ret = PyInt(1)
    /\ Len(matches) = 2
    /\ idx = 2
    /\ matches[2][1] \in DOMAIN files0
    /\ matches[1][1] \notin DOMAIN files0
    /\ ~FetchFailed(gets[2][2])
    /\ files[matches[2][1]] = BodyOld

-----------------------------------------------------------------------------
(* C3: with --save-as and --force, a line whose destination file already   *)
(* exists has the file deleted first and recreated in the next step, and   *)
(* once the line's step is complete the file holds the payload fetched for *)
(* that line in this run.                                                  *)
C3_DeleteStep ==
    (pc = "save" /\ args.save_as /\ args.force
        /\ matches[idx][1] \in DOMAIN files)
    => (pc' = "write" /\ matches[idx][1] \notin DOMAIN files')

C3_RecreateStep ==
    pc = "write"
    => /\ matches[idx][1] \notin DOMAIN files
       /\ matches[idx][1] \in DOMAIN files'
       /\ SamePayload(files'[matches[idx][1]], gets[idx][2].text)

C3_Completed ==
    (args.save_as /\ args.force) =>
        \A i \in 1..Len(matches) :
            (i < idx /\ matches[i][1] \in DOMAIN files0) =>
                /\ matches[i][1] \in DOMAIN files
                /\ SamePayload(files[matches[i][1]], gets[i][2].text)

\* C3: under --force an existing destination file is deleted, then recreated,
\* and after the line's step it holds the payload fetched for that line.
C3_ForceDeletesThenRecreates ==
    /\ []C3_Completed
    /\ [][C3_DeleteStep]_vars
    /\ [][C3_RecreateStep]_vars

C3_Witness ==
    /\ args.save_as
    /\ args.force
    /\ pc = "loop"
    /\ idx = 2
    /\ matches[1][1] \in DOMAIN files0
    /\ files0[matches[1][1]] = BodyOld
    /\ gets[1][2].text = BodyX
    /\ files[matches[1][1]] # BodyOld

-----------------------------------------------------------------------------
(* C4: with --save-as, no file present beforehand and no failure, the run  *)
(* issues exactly one GET per entry of the mapping, for that entry's       *)
(* identifier, and ends with exactly one file per entry, each holding the  *)
(* payload returned for its own entry.                                     *)
C4_OneGetOneFilePerEntry ==
    (FullSuccess /\ args.save_as /\ DOMAIN files0 = {}) =>
        /\ Len(gets) = Len(matches)
        /\ \A i \in 1..Len(matches) : gets[i][1] = matches[i][2]
        /\ DOMAIN files = { matches[i][1] : i \in 1..Len(matches) }
        /\ \A i \in 1..Len(matches) :
              SamePayload(files[matches[i][1]], gets[i][2].text)

C4_Witness ==
    /\ FullSuccess
    /\ args.save_as
    /\ DOMAIN files0 = {}
    /\ Len(matches) = 2
    /\ matches[1][2] # matches[2][2]
    /\ gets[1][2].text = BodyX
    /\ gets[2][2].text = BodyY
    /\ Cardinality(DOMAIN files) = 2

-----------------------------------------------------------------------------
(* C5: when an `a` start tag whose href has the prefix and a numeric third *)
(* segment I is directly followed by a text chunk whose trimmed value N is *)
(* numeric, the scanner records mapping[N] = I, keyed by the trimmed text, *)
(* and returns to idle.                                                    *)
C5_AnchorThenNumericText ==
    (/\ Handles("data")
     /\ last.kind = "start"
     /\ last.tag = "a"
     /\ DeclaredIds(last.attrs) # {}
     /\ TrimmedNumeric(last'.data) # {})
    => \A N \in TrimmedNumeric(last'.data) :
          /\ HasKey(matches', N)
          /\ Lookup(matches', N) \in DeclaredIds(last.attrs)
          /\ Cardinality({ i \in 1..Len(matches') : matches'[i][1] = N }) = 1
          /\ suspected' = None

\* C5: a matching `a` start tag directly followed by numeric text records
\* mapping[trimmed text] = identifier and returns the scanner to idle.
C5_RecordsTrimmedKey == [][C5_AnchorThenNumericText]_vars

C5_Witness ==
    /\ nfed = 2
    /\ last.kind = "data"
    /\ last.data = <<" ", "4", "5", "\n">>
    /\ prevSuspected = <<"1", "2">>
    /\ matches = << << <<"4", "5">>, <<"1", "2">> >> >>
    /\ suspected = None

-----------------------------------------------------------------------------
(* C6: the scanner never raises, whatever the sequence of start-tag,       *)
(* end-tag and text events, an href without a value included.              *)
C6_ScannerNeverRaises == exc \notin {"AttributeError", "IndexError"}

-----------------------------------------------------------------------------
(* C7: in every reachable state the pending candidate is absent or a       *)
(* non-empty numeric string and every key and value of the mapping is a    *)
(* non-empty numeric string; an anchor without a numeric id segment leaves *)
(* no candidate, and text that is not numeric adds no entry.               *)
C7_NumericState ==
    /\ (suspected = None \/ NonEmptyNumeric(suspected))
    /\ \A i \in 1..Len(matches) :
          NonEmptyNumeric(matches[i][1]) /\ NonEmptyNumeric(matches[i][2])

C7_NoIdNoCandidate ==
    (Handles("start") /\ last'.tag = "a" /\ DeclaredIds(last'.attrs) = {})
    => (suspected' = None /\ matches' = matches)

C7_NoNumberNoEntry ==
    (Handles("data") /\ TrimmedNumeric(last'.data) = {})
    => (matches' = matches /\ suspected' = suspected)

\* C7: candidate, keys and values are always non-empty numeric strings;
\* non-numeric id segments and non-numeric text contribute nothing.
C7_OnlyNumericRecorded ==
    /\ []C7_NumericState
    /\ [][C7_NoIdNoCandidate]_vars
    /\ [][C7_NoNumberNoEntry]_vars

C7_Witness ==
    /\ nfed = 4
    /\ last.kind = "data"
    /\ last.data = <<"N", "/", "A">>
    /\ prevSuspected = <<"7">>
    /\ suspected = <<"7">>
    /\ matches = << << <<"4", "6">>, <<"1", "2">> >> >>

-----------------------------------------------------------------------------
(* C8: when several anchors resolve to the same phone number, the mapping  *)
(* holds a single entry for that number, whose value is the identifier of  *)
(* the last such anchor in document order.                                 *)
LastResolved(N) ==
    resolved[CHOOSE j \in 1..Len(resolved) :
                /\ resolved[j][1] = N
                /\ \A k \in (j + 1)..Len(resolved) : resolved[k][1] # N][2]

C8_LastAnchorWins ==
    \A j \in 1..Len(resolved) :
        LET N == resolved[j][1] IN
            /\ Cardinality({ i \in 1..Len(matches) : matches[i][1] = N }) = 1
            /\ Lookup(matches, N) = LastResolved(N)

C8_Witness ==
    /\ pc = "loop"
    /\ Len(resolved) = 2
    /\ resolved[1][1] = resolved[2][1]
    /\ resolved[1][2] # resolved[2][2]
    /\ Len(matches) = 1
    /\ matches[1][2] = resolved[2][2]

-----------------------------------------------------------------------------
(* C9: a start tag of an element other than `a`, met while a candidate is  *)
(* pending, leaves the candidate pending.                                  *)
C9_OtherStartTagKeepsPending ==
    [][(Handles("start") /\ last'.tag # "a" /\ suspected # None)
        => suspected' = suspected]_vars

(* C9 as amended: every start tag resets the pending state; a start tag of *)
(* another element clears the candidate, so a text chunk that directly     *)
(* follows it, numeric or not, is not recorded.                            *)
C9_OtherStartTagClears ==
    (Handles("start") /\ last'.tag # "a") => (suspected' = None /\ matches' = matches)

C9_TextAfterOtherStartTag ==
    (Handles("data") /\ last.kind = "start" /\ last.tag # "a")
    => (matches' = matches /\ suspected' = None)

\* C9 (amended): a start tag of any element resets the pending state, so text
\* nested one element deeper than the anchor is not recorded.
C9_AnyStartTagResets ==
    /\ [][C9_OtherStartTagClears]_vars
    /\ [][C9_TextAfterOtherStartTag]_vars

C9_Witness ==
    /\ nfed = 2
    /\ last.kind = "start"
    /\ last.tag = "span"
    /\ prevSuspected = <<"1", "2">>
    /\ suspected = None
    /\ matches = <<>>

-----------------------------------------------------------------------------
(* C10: the run stops at the first fatal outcome.  A failed login is       *)
(* followed by no GET and no change of any file; a failed fetch or a       *)
(* refused write for a line is followed by no GET, delete or write for     *)
(* that line's file or a later line's, and the files written for earlier   *)
(* lines keep what this run wrote.                                         *)
LoginFailed == gets = <<>> /\ response.status >= 400

C10_LoginFailure == LoginFailed => (Ended /\ nfed = 0 /\ files = files0)

Untouched(name) ==
    /\ (name \in DOMAIN files) = (name \in DOMAIN files0)
    /\ name \in DOMAIN files => files[name] = files0[name]

C10_StoppedAt(k) ==
    /\ Ended
    /\ Len(gets) = k
    /\ \A i \in k..Len(matches) : Untouched(matches[i][1])
    /\ \A i \in 1..(k - 1) :
          IF args.save_as
          THEN /\ matches[i][1] \in DOMAIN files
               /\ SamePayload(files[matches[i][1]], gets[i][2].text)
          ELSE Untouched(matches[i][1])

C10_FetchFailure ==
    \A k \in 1..Len(gets) : FetchFailed(gets[k][2]) => C10_StoppedAt(k)

C10_Refusal ==
    \A k \in 1..Len(gets) :
        (/\ pc # "save"
         /\ k = idx
         /\ ~FetchFailed(gets[k][2])
         /\ args.save_as
         /\ ~args.force
         /\ matches[k][1] \in DOMAIN files0)
        => C10_StoppedAt(k)

C10_NothingAfterTheEnd == Ended => (files' = files /\ gets' = gets /\ Ended')

\* C10: the run stops at the first fatal outcome and does nothing afterwards.
C10_StopsAtFirstFatal ==
    /\ [](C10_LoginFailure /\ C10_FetchFailure /\ C10_Refusal)
    /\ [][C10_NothingAfterTheEnd]_vars

C10_Witness ==
    /\ pc = "exited"
    /\ args.save_as
    /\ Len(matches) = 2
    /\ Len(gets) = 2
    /\ FetchFailed(gets[2][2])
    /\ gets[1][2].text = BodyY
    /\ files[matches[1][1]] = BodyY
    /\ matches[2][1] \in DOMAIN files0

====
